---- MODULE Spec2Model ----
(***************************************************************************)
(* A model of the Toornament API client (src/toornament.py): the           *)
(* credential store, the rate limiter, plain GET/POST requests and the     *)
(* paginated fetch.  Time is counted in milliseconds.  One client handles  *)
(* one call at a time (every call is synchronous); an action is the part   *)
(* of a call that runs between two waits for the network.                  *)
(***************************************************************************)
EXTENDS Integers, Sequences, FiniteSets, TLC

(***************************************************************************)
(* Bounds of the model.                                                    *)
(***************************************************************************)
\* No call is started and no idle time passes after this time (ms).
MaxTime == 700
\* The latency of a slow response (ms); a fast one takes 0 ms.
LatencyMs == 700
\* The length of one idle period between two calls (ms).
IdleMs == 400
\* Requests one call may send (a server may keep a paginated fetch going).
MaxOpRequests == 3
\* Items the server holds beyond two full pages, in its largest listing.
MaxExtra == 1
\* The groups of the largest tournament looked up.
MaxGroups == 3
\* The rows of the longest ranking rendered.
MaxRows == 2
\* The length of the longest colour code parsed.
MaxColourLen == 7
\* The stages, sequences and permitted roles the bot keeps at most.
MaxStages == 1
MaxSequences == 1
MaxRoles == 1
\* The entries of the longest permission list when only the role commands
\* are sent.
MaxListed == 3
\* The commands dispatched to the event loop, and the requests of the
\* longest of them.
MaxCommands == 2
MaxCalls == 2

(***************************************************************************)
(* Program constants.                                                      *)
(***************************************************************************)
\* self.__time_per_request = 333 (milliseconds)
time_per_request == 333
\* items_per_request: int = 50
items_per_request == 50
\* datetime.timedelta(seconds=expiry_in_seconds - 10)
ExpiryMarginSec == 10
\* datetime.timedelta(minutes = 1), in seconds
ExpiryLookaheadSec == 60
\* milliseconds per second (datetime arithmetic)
MsPerSec == 1000

Min(a, b) == IF a <= b THEN a ELSE b

(***************************************************************************)
(* Python dicts: functions from the keys present to their values.          *)
(***************************************************************************)
EmptyDict == [k \in {} |-> <<>>]
Put(d, k, v) == [x \in (DOMAIN d) \cup {k} |-> IF x = k THEN v ELSE d[x]]
Has(d, k) == k \in DOMAIN d

(***************************************************************************)
(* Python strings: sequences of characters.  str.lower and str.upper map   *)
(* the letters and leave every other character as it is.                   *)
(***************************************************************************)
UpperCaseLetters ==
    <<"A", "B", "C", "D", "E", "F", "I", "L", "R", "S", "V", "X", "Z">>
LowerCaseLetters ==
    <<"a", "b", "c", "d", "e", "f", "i", "l", "r", "s", "v", "x", "z">>

Translate(c, from, to) ==
    IF \E i \in 1..Len(from) : from[i] = c
    THEN to[CHOOSE i \in 1..Len(from) : from[i] = c]
    ELSE c

lower(str) == [i \in 1..Len(str) |-> Translate(str[i], UpperCaseLetters, LowerCaseLetters)]
upper(str) == [i \in 1..Len(str) |-> Translate(str[i], LowerCaseLetters, UpperCaseLetters)]

(***************************************************************************)
(* strftime / strptime with "%d.%m.%Y, %H:%M:%S": the text carries whole   *)
(* seconds only.  The text is modelled by its fields <<hours, minutes,     *)
(* seconds>>, the date being counted into the hours.                       *)
(***************************************************************************)
\* A slip in the format: "%H:%M" without the seconds.
strftime_without_seconds(t) ==
    LET s == t \div MsPerSec
    IN  <<s \div 3600, (s \div 60) % 60, 0>>

strftime(t) ==
    LET s == t \div MsPerSec
    IN  <<s \div 3600, (s \div 60) % 60, s % 60>>

strptime(txt) == (txt[1] * 3600 + txt[2] * 60 + txt[3]) * MsPerSec

(***************************************************************************)
(* __has_api_token_expired: now + 1 minute > auth_expiry                   *)
(***************************************************************************)
\* A slip: the minute of lookahead forgotten.
has_api_token_expired_no_lookahead(t, creds) ==
    t > creds.auth_expiry

has_api_token_expired(t, creds) ==
    t + ExpiryLookaheadSec * MsPerSec > creds.auth_expiry

(***************************************************************************)
(* __respect_rate_limits, entered at time t with cooldown cd: the time at  *)
(* which it returns (the request is sent then) and the new cooldown.       *)
(***************************************************************************)
\* A slip: the cooldown is set but never waited for.
respect_rate_limits_no_wait(t, cd) ==
    [entered |-> t, cooldown |-> cd, sent |-> t, next |-> t + time_per_request]

\* A slip: a request that has to wait sleeps a whole period past the cooldown.
respect_rate_limits_oversleep(t, cd) ==
    LET resumed == IF t < cd THEN cd + time_per_request ELSE t
    IN  [entered |-> t, cooldown |-> cd, sent |-> resumed,
         next |-> resumed + time_per_request]

respect_rate_limits(t, cd) ==
    LET resumed == IF t < cd THEN cd ELSE t
    IN  [entered |-> t, cooldown |-> cd, sent |-> resumed,
         next |-> resumed + time_per_request]

(***************************************************************************)
(* __update_api_credentials at time t with the token response: the         *)
(* credentials held afterwards, and the JSON file written.                 *)
(***************************************************************************)
\* A slip: the safety margin forgotten.
new_auth_expiry_no_margin(t, response) ==
    t + response.expires_in * MsPerSec

new_auth_expiry(t, response) ==
    t + (response.expires_in - ExpiryMarginSec) * MsPerSec

update_api_credentials(t, creds, response) ==
    [creds EXCEPT !.auth_key = response.access_token,
                  !.auth_type = response.token_type,
                  !.auth_scope = response.scope,
                  !.auth_expiry = new_auth_expiry(t, response)]

dump_credentials(t, creds, response) ==
    [creds EXCEPT !.auth_key = response.access_token,
                  !.auth_type = response.token_type,
                  !.auth_scope = response.scope,
                  !.auth_expiry = strftime(new_auth_expiry(t, response))]

(***************************************************************************)
(* __load_api_credentials: the file's content, auth_expiry parsed.         *)
(***************************************************************************)
load_api_credentials(file) ==
    [file EXCEPT !.auth_expiry = strptime(file.auth_expiry)]

(***************************************************************************)
(* The platform, as the client sees it.                                    *)
(***************************************************************************)
\* The sizes of the listings a paginated endpoint may hold.
ItemCounts ==
    {0, items_per_request, items_per_request + 1,
     2 * items_per_request + MaxExtra}

Latencies == {0, LatencyMs}

\* Answers of the token endpoint: access_token, token_type, scope and
\* expires_in (seconds).
TokenResponses ==
    [access_token : {1, 2}, token_type : {"Bearer"},
     scope : {"organizer:result"}, expires_in : {5, 70, 71}]

\* auth_expiry texts the credential file may hold at start (seconds).
InitialExpirySecs == {30, 60, 3600}

\* Items s..e (0-based) of a listing of n items, in server order.
Slice(n, s, e) ==
    LET last == Min(e, n - 1)
    IN  IF last < s THEN <<>> ELSE [i \in 1..(last - s + 1) |-> s + i - 1]

\* The Content-Range text "<unit> <first>-<last>/<total>".
ContentRange(unit, first, last, total) == <<unit, first, last, total>>
Garbled == <<"*">>

HeadersWith(cr) == Put(EmptyDict, "Content-Range", cr)

\* What a server that holds n items, honours the window s..e and reports
\* the total n answers.  Of an empty listing no range can be reported.
HonestResponses(unit, n, s, e) ==
    IF n = 0
    THEN {[ok |-> TRUE, body |-> <<>>, headers |-> HeadersWith(Garbled)]}
    ELSE {[ok |-> TRUE, body |-> Slice(n, s, e),
           headers |-> HeadersWith(ContentRange(unit, s, Min(e, n - 1), n))]}

\* Other answers: a failure status, no Content-Range header, one that does
\* not match the format (also: another unit), a window or total of the
\* server's own choosing.
OtherResponses(unit, n, s, e) ==
    {[ok |-> FALSE, body |-> <<>>, headers |-> EmptyDict]}
    \cup {[ok |-> TRUE, body |-> Slice(n, s, e), headers |-> EmptyDict]}
    \cup {[ok |-> TRUE, body |-> Slice(n, s, e), headers |-> HeadersWith(cr)] :
            cr \in {ContentRange("pages", s, e, e + 2),
                    ContentRange(unit, 0, items_per_request - 1, 2 * items_per_request),
                    ContentRange(unit, s, e, e),
                    ContentRange(unit, s, e, e + 2)}}

PageResponses(unit, n, s, e) ==
    HonestResponses(unit, n, s, e) \cup OtherResponses(unit, n, s, e)

(***************************************************************************)
(* parse.parse("<unit> {:d}-{:d}/{:d}", text): the three numbers, or no    *)
(* match (None).                                                           *)
(***************************************************************************)
NoMatch == <<>>

parse_content_range(unit, text) ==
    IF Len(text) = 4 /\ text[1] = unit
    THEN <<text[2], text[3], text[4]>>
    ELSE NoMatch

\* A slip: the next window starts at the last index itself.
next_page_start_same(parsed) == parsed[2]

\* page_start = last_page_index + 1
next_page_start(parsed) == parsed[2] + 1

\* A slip: the loop runs once more when the total is reached.
loop_continues_inclusive(start, total) == start <= total

\* while page_start < total_page_num
loop_continues(start, total) == start < total

\* page_end = page_start + items_per_request - 1
page_end_of(start) == start + items_per_request - 1

(***************************************************************************)
(* The state.                                                              *)
(***************************************************************************)
VARIABLES
    now,              \* datetime.datetime.now(), in ms
    api_cooldown,     \* self.__api_cooldown
    credentials,      \* self.__credentials
    cred_file,        \* the JSON file at self.__credential_path
    default_headers,  \* the default `headers = {}` dict of each request method
    pc,               \* "idle", "refresh" (token POST in flight), "data"
    call,             \* the call being handled, or the last one handled
    page_start,       \* locals of __request_get_pages
    total_page_num,
    page_list,
    request,          \* the last request sent
    op_log,           \* purpose and status of the requests of the call, in order
    last_page,        \* the answer handled last, if it answered a page request
    outcome,          \* "none", "returned", "HTTPError", "KeyError"
    result,           \* <<value>> once the call has returned a value
    run,              \* send times of the last requests sent back to back
    gap,              \* time between the last two requests sent, or -1
    last_refresh,     \* <<r>>: the last token refresh of this client
    tournament_buffer, \* self.__tournament_buffer
    group_buffer,     \* self.__group_buffer
    arg,              \* the arguments of the buffered lookup handled last
    found,            \* what get_group_info returned, once it has
    fetched,          \* per tournament id, what the platform served to lookups
    rendered,         \* the embed generator's function applied last: its
                      \* name, its input and what it gave
    stages,           \* EmbedGenerator.__stages.content
    sequences,        \* EmbedGenerator.__sequences.content
    roles,            \* PermissionManager.__roles.content
    command,          \* the bot command handled last and how it ended
    tasks,            \* per command dispatched to the event loop: where its
                      \* coroutine stands, and its locals
    loop              \* the command whose coroutine the event loop runs, or 0

clientVars ==
    <<now, api_cooldown, credentials, cred_file, default_headers, pc, call,
      page_start, total_page_num, page_list, request, op_log, last_page,
      outcome, result, run, gap, last_refresh>>

bufferVars == <<tournament_buffer, group_buffer, arg, found, fetched>>

renderVars == <<rendered>>

botVars == <<stages, sequences, roles, command>>

loopVars == <<tasks, loop>>

\* What no step of the client's request methods touches.
beyondClient == <<bufferVars, renderVars, botVars, loopVars>>

vars == <<clientVars, bufferVars, renderVars, botVars, loopVars>>

pageVars == <<page_start, total_page_num, page_list, last_page>>
credVars == <<credentials, cred_file, last_refresh>>
sendVars == <<api_cooldown, request, run, gap>>

Methods == {"request_get", "request_post", "request_get_pages"}

NoCall ==
    [name |-> "none", method |-> "request_get", authorization |-> FALSE,
     unit |-> "items", n |-> 0, at |-> 0, expiry |-> 0, first |-> FALSE,
     faithful |-> TRUE]

NoRequest ==
    [verb |-> "none", purpose |-> "none", headers |-> EmptyDict,
     authorization |-> FALSE, entered |-> 0, sent |-> 0]

\* header: "error" (failure status), "missing", "nomatch" or "range".
NoPage == [header |-> "none", range |-> <<>>]
PageSeen(header, range) == [header |-> header, range |-> range]

FreshHeaders == [m \in Methods |-> EmptyDict]

\* The tournament ids looked up.
TournamentIds == {"t1", "t2"}

NoArg == [lookup |-> "none", tournament_id |-> "t1", group_name |-> <<>>,
          fetched_before |-> FALSE, cooldown |-> 0]

\* get_group_info has not returned (returned = FALSE), returned None
\* (group = <<>>) or returned a group (group = <<g>>).
NoneFound == [returned |-> FALSE, group |-> <<>>]

NoneFetched ==
    [tournaments |-> [id \in TournamentIds |-> <<>>],
     groups |-> [id \in TournamentIds |-> <<>>]]

NothingRendered == [function |-> "none", input |-> <<>>, output |-> <<>>]

\* The invoker of a command: the guild it is sent in, whether its author
\* is an administrator there, and the author's roles in that guild.
NoCommand ==
    [name |-> "none",
     ctx |-> [guild |-> "none", administrator |-> FALSE, roles |-> {}],
     target |-> <<>>, role |-> "none", reply |-> "none", raised |-> "none",
     calls |-> <<>>, before |-> <<>>]

\* A command not yet sent.  at: "none", "queued" (dispatched, its coroutine
\* not yet run), "paused" (in pause.until), "waiting" (in requests.get or
\* requests.post), "replying" (in await ctx.send) or "done".
NoTask ==
    [at |-> "none", left |-> 0, authorization |-> FALSE, purpose |-> "none",
     wake |-> 0]

NoBuffers ==
    /\ tournament_buffer = EmptyDict
    /\ group_buffer = EmptyDict
    /\ arg = NoArg
    /\ found = NoneFound
    /\ fetched = NoneFetched

LastThree(s) == IF Len(s) > 3 THEN SubSeq(s, Len(s) - 2, Len(s)) ELSE s

Init ==
    /\ now = 0
    /\ api_cooldown = 0
    /\ \E secs \in InitialExpirySecs :
         /\ cred_file = [token |-> "api-key", auth_key |-> 0,
                         auth_type |-> "bearer",
                         auth_scope |-> "organizer:view",
                         auth_expiry |-> strftime(secs * MsPerSec)]
         /\ credentials = load_api_credentials(cred_file)
    /\ default_headers = FreshHeaders
    /\ pc = "idle"
    /\ call = NoCall
    /\ page_start = 0
    /\ total_page_num = 1
    /\ page_list = <<>>
    /\ request = NoRequest
    /\ op_log = <<>>
    /\ last_page = NoPage
    /\ outcome = "none"
    /\ result = <<>>
    /\ run = <<>>
    /\ gap = -1
    /\ last_refresh = <<>>
    /\ NoBuffers
    /\ rendered = NothingRendered
    /\ stages = <<>>
    /\ sequences = <<>>
    /\ roles = <<>>
    /\ command = NoCommand
    /\ tasks = [i \in 1..MaxCommands |-> NoTask]
    /\ loop = 0

(***************************************************************************)
(* One outgoing request: __respect_rate_limits, then requests.get/post.    *)
(* t is the time at which the rate limiter is entered.                     *)
(***************************************************************************)
SendRequest(verb, purpose, headers, asked, t, log) ==
    LET rl == respect_rate_limits(t, api_cooldown)
        back_to_back == request.verb # "none" /\ rl.entered = request.sent
    IN  /\ now' = rl.sent
        /\ api_cooldown' = rl.next
        /\ run' = IF back_to_back THEN LastThree(Append(run, rl.sent))
                  ELSE <<rl.sent>>
        /\ gap' = IF request.verb = "none" THEN -1 ELSE rl.sent - request.sent
        /\ request' = [verb |-> verb, purpose |-> purpose, headers |-> headers,
                       authorization |-> asked, entered |-> rl.entered,
                       sent |-> rl.sent]
        /\ op_log' = Append(log, [purpose |-> purpose, status |-> "pending"])

\* The log with its last request answered.
Answered(log, status) == [log EXCEPT ![Len(log)].status = status]

(***************************************************************************)
(* The part of __request_get / __request_post / __request_get_pages after  *)
(* __check_auth_token: the headers, the rate limiter, the (first) request. *)
(***************************************************************************)
request_headers(c, creds, h0) ==
    LET h1 == IF c.authorization
              THEN Put(h0, "Authorization", creds.auth_key) ELSE h0
        h2 == Put(h1, "X-Api-Key", creds.token)
    IN  IF c.method = "request_get_pages"
        THEN Put(h2, "Range", <<c.unit, 0, page_end_of(0)>>)
        ELSE h2

SendData(c, creds, t, log) ==
    LET h == request_headers(c, creds, default_headers[c.method])
    IN  /\ default_headers' = [default_headers EXCEPT ![c.method] = h]
        /\ SendRequest(IF c.method = "request_post" THEN "POST" ELSE "GET",
                       "data", h, c.authorization, t, log)
        /\ page_start' = 0
        /\ total_page_num' = 1
        /\ page_list' = <<>>
        /\ last_page' = NoPage
        /\ pc' = "data"

(***************************************************************************)
(* __check_auth_token: the token request, sent with headers of its own.    *)
(***************************************************************************)
refresh_headers(creds) ==
    Put(Put(EmptyDict, "Content-Type", "application/x-www-form-urlencoded"),
        "X-Api-Key", creds.token)

SendRefresh(creds, t) ==
    /\ SendRequest("POST", "refresh", refresh_headers(creds), FALSE, t, <<>>)
    /\ pc' = "refresh"
    /\ page_start' = 0
    /\ total_page_num' = 1
    /\ page_list' = <<>>
    /\ last_page' = NoPage
    /\ UNCHANGED default_headers

(***************************************************************************)
(* A call of one of the request methods, up to its first request.          *)
(***************************************************************************)
Call(name, method, authorization, unit, n) ==
    /\ pc = "idle"
    /\ now <= MaxTime
    /\ LET c == [name |-> name, method |-> method,
                 authorization |-> authorization, unit |-> unit, n |-> n,
                 at |-> now, expiry |-> credentials.auth_expiry,
                 first |-> (request.verb = "none"), faithful |-> TRUE]
       IN  /\ call' = c
           /\ IF authorization /\ has_api_token_expired(now, credentials)
              THEN SendRefresh(credentials, now)
              ELSE SendData(c, credentials, now, <<>>)
    /\ outcome' = "none"
    /\ result' = <<>>
    /\ UNCHANGED credVars

(***************************************************************************)
(* The public fetches: each calls its request method without               *)
(* authorization.                                                          *)
(***************************************************************************)
get_ranking ==
    \E n \in ItemCounts : Call("get_ranking", "request_get_pages", FALSE, "items", n)

get_matches ==
    \E n \in ItemCounts : Call("get_matches", "request_get_pages", FALSE, "matches", n)

get_groups ==
    \E n \in ItemCounts : Call("get_groups", "request_get_pages", FALSE, "groups", n)

get_stage == Call("get_stage", "request_get", FALSE, "items", 0)

(***************************************************************************)
(* The request methods called with authorization = True, which they take   *)
(* as a parameter (no public fetch passes it).                             *)
(***************************************************************************)
authorized_request ==
    \E m \in Methods :
        Call(m, m, TRUE, "items",
             IF m = "request_get_pages" THEN items_per_request + 1 ELSE 0)

(***************************************************************************)
(* How a call ends: an exception leaves it, or it returns a value.         *)
(***************************************************************************)
\* A slip: the failure is swallowed and what was gathered is returned.
RaiseSwallowed(error, t, log) ==
    /\ now' = t
    /\ op_log' = log
    /\ outcome' = "returned"
    /\ result' = <<page_list>>
    /\ pc' = "idle"
    /\ UNCHANGED <<sendVars, default_headers>>

Raise(error, t, log) ==
    /\ now' = t
    /\ op_log' = log
    /\ outcome' = error
    /\ result' = <<>>
    /\ pc' = "idle"
    /\ UNCHANGED <<sendVars, default_headers>>

Return(value, t, log) ==
    /\ now' = t
    /\ op_log' = log
    /\ outcome' = "returned"
    /\ result' = <<value>>
    /\ pc' = "idle"
    /\ UNCHANGED <<sendVars, default_headers>>

(***************************************************************************)
(* The answer to the token POST arrives: __request_post returns or raises, *)
(* __update_api_credentials, then the request method goes on.              *)
(***************************************************************************)
\* __check_auth_token from the return of __request_post on: the credentials
\* are updated and saved, and the request method goes on to its request.
\* The platform issued the token when the request arrived (served = 0) or
\* just before its answer did (served = 1).
token_stored(lat, status, response, served) ==
    LET t == now + lat
    IN  /\ credentials' = update_api_credentials(t, credentials, response)
        /\ cred_file' = dump_credentials(t, credentials, response)
        /\ last_refresh' = <<[issued |-> now + served * lat,
                              processed |-> t,
                              expires_in |-> response.expires_in,
                              access_token |-> response.access_token]>>
        /\ SendData(call, credentials', t, Answered(op_log, status))
        /\ UNCHANGED <<call, outcome, result>>

\* A slip: __request_post without its `if response.ok` test.
token_answer_unchecked(lat, ok, response, served) ==
    token_stored(lat, IF ok THEN "ok" ELSE "error", response, served)

token_answer(lat, ok, response, served) ==
    IF ok
    THEN token_stored(lat, "ok", response, served)
    ELSE /\ served = 0
         /\ Raise("HTTPError", now + lat, Answered(op_log, "error"))
         /\ call' = [call EXCEPT !.faithful = FALSE]
         /\ UNCHANGED <<credVars, pageVars>>

token_response ==
    /\ pc = "refresh"
    /\ \E lat \in Latencies, ok \in BOOLEAN, response \in TokenResponses,
          served \in {0, 1} :
         token_answer(lat, ok, response, served)

(***************************************************************************)
(* The answer to a plain GET or POST arrives.                              *)
(***************************************************************************)
data_response ==
    /\ pc = "data"
    /\ call.method # "request_get_pages"
    /\ \E lat \in Latencies, ok \in BOOLEAN :
         IF ok
         THEN Return("json", now + lat, Answered(op_log, "ok"))
         ELSE Raise("HTTPError", now + lat, Answered(op_log, "error"))
    /\ UNCHANGED <<credVars, pageVars, call>>

(***************************************************************************)
(* The answer to a page request arrives: one pass of the loop body of      *)
(* __request_get_pages from `if response.ok`, and, if the loop goes on,    *)
(* the next pass up to its request.                                        *)
(***************************************************************************)
page_answered(lat, response) ==
    LET t == now + lat
        faithful == call.faithful /\ response \in
                       HonestResponses(call.unit, call.n, page_start,
                                       page_end_of(page_start))
        pages == page_list \o response.body
    IN  /\ call' = [call EXCEPT !.faithful = faithful]
        /\ IF ~response.ok
           THEN /\ Raise("HTTPError", t, Answered(op_log, "error"))
                /\ last_page' = PageSeen("error", <<>>)
                /\ UNCHANGED <<page_start, total_page_num, page_list>>
           ELSE IF ~Has(response.headers, "Content-Range")
           THEN /\ Raise("KeyError", t, Answered(op_log, "ok"))
                /\ page_list' = pages
                /\ last_page' = PageSeen("missing", <<>>)
                /\ UNCHANGED <<page_start, total_page_num>>
           ELSE LET parsed == parse_content_range(call.unit,
                                  response.headers["Content-Range"])
                IN IF parsed = NoMatch
                   THEN /\ Return(pages, t, Answered(op_log, "ok"))
                        /\ page_list' = pages
                        /\ last_page' = PageSeen("nomatch", <<>>)
                        /\ UNCHANGED <<page_start, total_page_num>>
                   ELSE /\ page_start' = next_page_start(parsed)
                        /\ total_page_num' = parsed[3]
                        /\ page_list' = pages
                        /\ last_page' = PageSeen("range", parsed)
                        /\ IF loop_continues(page_start', total_page_num')
                           THEN /\ Len(op_log) < MaxOpRequests
                                /\ LET h == Put(default_headers[call.method],
                                                "Range",
                                                <<call.unit, page_start',
                                                  page_end_of(page_start')>>)
                                   IN  /\ default_headers' =
                                            [default_headers EXCEPT
                                               ![call.method] = h]
                                       /\ SendRequest("GET", "data", h,
                                              call.authorization, t,
                                              Answered(op_log, "ok"))
                                /\ UNCHANGED <<pc, outcome, result>>
                           ELSE Return(pages, t, Answered(op_log, "ok"))

page_response ==
    /\ pc = "data"
    /\ call.method = "request_get_pages"
    /\ UNCHANGED credVars
    /\ \E lat \in Latencies,
          response \in PageResponses(call.unit, call.n, page_start,
                                     page_end_of(page_start)) :
         page_answered(lat, response)

(***************************************************************************)
(* Time passes while the client is idle.                                   *)
(***************************************************************************)
Tick ==
    /\ pc = "idle"
    /\ now <= MaxTime
    /\ now' = now + IdleMs
    /\ UNCHANGED <<sendVars, credVars, default_headers, pc, call, pageVars,
                   op_log, outcome, result>>

(***************************************************************************)
(* The process is started again: ToornamentAPI.__init__.                   *)
(***************************************************************************)
Restart ==
    /\ pc = "idle"
    /\ request.verb # "none"
    /\ api_cooldown' = now
    /\ credentials' = load_api_credentials(cred_file)
    /\ default_headers' = FreshHeaders
    /\ call' = NoCall
    /\ page_start' = 0
    /\ total_page_num' = 1
    /\ page_list' = <<>>
    /\ request' = NoRequest
    /\ op_log' = <<>>
    /\ last_page' = NoPage
    /\ outcome' = "none"
    /\ result' = <<>>
    /\ run' = <<>>
    /\ gap' = -1
    /\ last_refresh' = <<>>
    /\ tournament_buffer' = EmptyDict
    /\ group_buffer' = EmptyDict
    /\ arg' = NoArg
    /\ found' = NoneFound
    /\ fetched' = NoneFetched
    /\ UNCHANGED <<now, cred_file, pc, renderVars, botVars, loopVars>>

Next ==
    \/ get_ranking /\ UNCHANGED beyondClient
    \/ get_matches /\ UNCHANGED beyondClient
    \/ get_groups /\ UNCHANGED beyondClient
    \/ get_stage /\ UNCHANGED beyondClient
    \/ authorized_request /\ UNCHANGED beyondClient
    \/ token_response /\ UNCHANGED beyondClient
    \/ data_response /\ UNCHANGED beyondClient
    \/ page_response /\ UNCHANGED beyondClient
    \/ Tick /\ UNCHANGED beyondClient
    \/ Restart

Spec == Init /\ [][Next]_vars

(***************************************************************************)
(* The paginated fetch against servers that answer every request with      *)
(* success and a Content-Range of the format, reporting the number of      *)
(* items they hold: one that honours the windows, and one that serves its  *)
(* first page whatever the window asked for.                               *)
(***************************************************************************)
\* What a server that holds n items and ignores the Range header answers.
FirstPageResponses(unit, n) ==
    IF n = 0 THEN {}
    ELSE HonestResponses(unit, n, 0, page_end_of(0))

\* A server that has ignored a window goes on ignoring them.
WellFormedResponses(c, s, e) ==
    IF c.faithful
    THEN HonestResponses(c.unit, c.n, s, e) \cup FirstPageResponses(c.unit, c.n)
    ELSE FirstPageResponses(c.unit, c.n)

well_formed_page_response ==
    /\ pc = "data"
    /\ call.method = "request_get_pages"
    /\ UNCHANGED credVars
    /\ \E lat \in Latencies,
          response \in WellFormedResponses(call, page_start,
                                           page_end_of(page_start)) :
         page_answered(lat, response)

PagedNext ==
    \/ get_ranking /\ UNCHANGED beyondClient
    \/ get_matches /\ UNCHANGED beyondClient
    \/ get_groups /\ UNCHANGED beyondClient
    \/ well_formed_page_response /\ UNCHANGED beyondClient
    \/ Tick /\ UNCHANGED beyondClient

PagedSpec == Init /\ [][PagedNext]_vars

(***************************************************************************)
(* The buffered lookups: get_tournament and get_group_info keep what the   *)
(* platform served, per tournament id, for as long as the client lives.    *)
(***************************************************************************)
\* The tournament documents the platform may serve at one moment or another.
Documents == {"tournament-as-created", "tournament-as-edited"}

\* The sizes of the group listings, and the groups' display names by
\* position: <<"A","b">>, <<"a","b">>, and <<"B">> for every further group.
GroupCounts == {0, MaxGroups}

GroupNameAt(i) ==
    IF i = 0 THEN <<"A", "b">> ELSE IF i = 1 THEN <<"a", "b">> ELSE <<"B">>

\* The names looked up: two that are in every listing that has groups, and
\* one that differs from them by case only.
GroupNames == {<<"A", "b">>, <<"a", "b">>, <<"A", "B">>}

\* One group of the listing as response.json() gives it: no "tournament_id".
group_of(i) == [id |-> i, name |-> GroupNameAt(i), tournament_id |-> <<>>]

groups_of(items) == [k \in 1..Len(items) |-> group_of(items[k])]

\* A slip: the value fetched is returned but not kept.
store_nowhere(buffer, id, value) == buffer

\* self.__tournament_buffer[tournament_id] = tournament, and the like.
store_in_buffer(buffer, id, value) == Put(buffer, id, value)

\* A slip: names compared without regard to case.
group_matches_ignoring_case(group, group_name) ==
    lower(group.name) = lower(group_name)

\* if group["name"] == group_name
group_matches(group, group_name) == group.name = group_name

\* The loop of get_group_info: the position of the first group of that
\* name, or 0.
group_index(groups, group_name) ==
    LET hits == {k \in 1..Len(groups) : group_matches(groups[k], group_name)}
    IN  IF hits = {} THEN 0
        ELSE CHOOSE k \in hits : \A j \in hits : k <= j

\* group["tournament_id"] = tournament_id; return group.  The group is the
\* dict held in the buffered list, which is annotated with it.
annotated(groups, k, id) ==
    IF k = 0 THEN groups
    ELSE [groups EXCEPT ![k].tournament_id = <<id>>]

group_found(groups, k, id) ==
    [returned |-> TRUE,
     group |-> IF k = 0 THEN <<>> ELSE <<annotated(groups, k, id)[k]>>]

BufferHit(name) ==
    /\ call' = [NoCall EXCEPT !.name = name, !.at = now,
                              !.expiry = credentials.auth_expiry]
    /\ outcome' = "returned"
    /\ op_log' = <<>>
    /\ UNCHANGED <<now, sendVars, credVars, default_headers, pc, pageVars>>

Lookup(name, id, group_name, served) ==
    [lookup |-> name, tournament_id |-> id, group_name |-> group_name,
     fetched_before |-> served[id] # <<>>, cooldown |-> api_cooldown]

get_tournament ==
    \E id \in TournamentIds :
        /\ pc = "idle"
        /\ now <= MaxTime
        /\ arg' = Lookup("get_tournament", id, <<>>, fetched.tournaments)
        /\ IF Has(tournament_buffer, id)
           THEN /\ BufferHit("get_tournament")
                /\ result' = <<tournament_buffer[id]>>
           ELSE Call("get_tournament", "request_get", FALSE, "items", 0)
        /\ UNCHANGED <<tournament_buffer, group_buffer, found, fetched>>

\* The answer to the GET of get_tournament arrives.
tournament_response ==
    /\ pc = "data"
    /\ call.name = "get_tournament"
    /\ \E lat \in Latencies, ok \in BOOLEAN, tournament \in Documents :
         LET id == arg.tournament_id
         IN  IF ok
             THEN /\ Return(tournament, now + lat, Answered(op_log, "ok"))
                  /\ tournament_buffer' =
                        store_in_buffer(tournament_buffer, id, tournament)
                  /\ fetched' = [fetched EXCEPT !.tournaments[id] =
                                                  Append(@, tournament)]
             ELSE /\ Raise("HTTPError", now + lat, Answered(op_log, "error"))
                  /\ UNCHANGED <<tournament_buffer, fetched>>
    /\ UNCHANGED <<credVars, pageVars, call, group_buffer, arg, found>>

get_group_info ==
    \E id \in TournamentIds, group_name \in GroupNames :
        /\ pc = "idle"
        /\ now <= MaxTime
        /\ arg' = Lookup("get_group_info", id, group_name, fetched.groups)
        /\ IF Has(group_buffer, id)
           THEN LET groups == group_buffer[id]
                    k == group_index(groups, group_name)
                IN  /\ BufferHit("get_group_info")
                    /\ result' = <<>>
                    /\ group_buffer' =
                          [group_buffer EXCEPT ![id] = annotated(groups, k, id)]
                    /\ found' = group_found(groups, k, id)
           ELSE /\ \E n \in GroupCounts :
                     Call("get_group_info", "request_get_pages", FALSE,
                          "groups", n)
                /\ found' = NoneFound
                /\ UNCHANGED group_buffer
        /\ UNCHANGED <<tournament_buffer, fetched>>

\* An answer to a page request of get_groups, called by get_group_info,
\* arrives; after the last one the listing is kept and searched.
groups_response ==
    /\ call.name = "get_group_info"
    /\ page_response
    /\ IF pc' = "idle" /\ outcome' = "returned"
       THEN LET id == arg.tournament_id
                groups == groups_of(result'[1])
                k == group_index(groups, arg.group_name)
            IN  /\ group_buffer' =
                      store_in_buffer(group_buffer, id, annotated(groups, k, id))
                /\ found' = group_found(groups, k, id)
                /\ fetched' = [fetched EXCEPT !.groups[id] = Append(@, groups)]
       ELSE UNCHANGED <<group_buffer, found, fetched>>
    /\ UNCHANGED <<tournament_buffer, arg>>

BufferNext ==
    \/ get_tournament /\ UNCHANGED <<renderVars, botVars, loopVars>>
    \/ get_group_info /\ UNCHANGED <<renderVars, botVars, loopVars>>
    \/ tournament_response /\ UNCHANGED <<renderVars, botVars, loopVars>>
    \/ groups_response /\ UNCHANGED <<renderVars, botVars, loopVars>>
    \/ Tick /\ UNCHANGED beyondClient

\* The lookups are public fetches, which never read auth_expiry: the client
\* starts with the longest-lived of the initial tokens.
BufferInit ==
    /\ Init
    /\ \A secs \in InitialExpirySecs : credentials.auth_expiry >= secs * MsPerSec

BufferSpec == BufferInit /\ [][BufferNext]_vars

(***************************************************************************)
(* The embed generator (src/embed_generator.py): the functions that turn   *)
(* what the platform served into text.  Each is applied to inputs drawn    *)
(* from the sets below.                                                    *)
(***************************************************************************)
DecimalDigits == <<"0", "1", "2", "3", "4", "5", "6", "7", "8", "9">>

\* str(n) and f"{n}" of an integer.
RECURSIVE str(_)
str(n) ==
    IF n < 0 THEN <<"-">> \o str(-n)
    ELSE IF n < Len(DecimalDigits) THEN <<DecimalDigits[n + 1]>>
    ELSE str(n \div Len(DecimalDigits)) \o
         <<DecimalDigits[(n % Len(DecimalDigits)) + 1]>>

\* f"{n:+}"
format_signed(n) == IF n < 0 THEN str(n) ELSE <<"+">> \o str(n)

\* " " * n
spaces(n) == [i \in 1..n |-> " "]

\* separator.join(values)
RECURSIVE join(_, _)
join(separator, values) ==
    IF values = <<>> THEN <<>>
    ELSE IF Len(values) = 1 THEN values[1]
    ELSE values[1] \o separator \o join(separator, Tail(values))

\* keys = ["rank", "name", "win_loss", "diff"]
keys == <<"rank", "name", "win_loss", "diff">>

\* __get_rank_info: a ranking item's rank (or position), short name (or
\* name), wins-losses and signed score difference, each as a string.  An
\* absent (None) rank or short name is <<>>, a present one <<value>>.
get_rank_info(team) ==
    LET rank == IF team.rank = <<>> THEN team.position ELSE team.rank[1]
        name == IF team.short_name = <<>> THEN team.name ELSE team.short_name[1]
    IN  [rank |-> <<"#">> \o str(rank),
         name |-> name,
         win_loss |-> str(team.wins) \o <<"-">> \o str(team.losses),
         diff |-> format_signed(team.score_difference)]

\* max(field_lengths)
max(lengths) ==
    CHOOSE m \in {lengths[i] : i \in 1..Len(lengths)} :
        \A i \in 1..Len(lengths) : lengths[i] <= m

\* A slip: the spaces put in front of the value.
padded_on_the_left(content, target_size) ==
    spaces(target_size - Len(content)) \o content

\* entry[key] + " " * (target_size - actual_size)
padded(content, target_size) ==
    content \o spaces(target_size - Len(content))

\* __pad_dictionary over a list that is not empty.
pad_dictionary(dict_list) ==
    LET paddings == [key \in DOMAIN dict_list[1] |->
                       max([i \in 1..Len(dict_list) |-> Len(dict_list[i][key])])]
    IN  [i \in 1..Len(dict_list) |->
           [key \in DOMAIN dict_list[i] |->
              padded(dict_list[i][key], paddings[key])]]

\* __get_ranking_str with the default separator ' | '
get_ranking_str(team) ==
    join(<<" ", "|", " ">>, [k \in 1..Len(keys) |-> team[keys[k]]])

\* __generate_ranking_text: max() of an empty list raises ValueError.
generate_ranking_text(ranking) ==
    IF ranking = <<>>
    THEN [raised |-> "ValueError", text |-> <<>>]
    ELSE LET infos == [i \in 1..Len(ranking) |-> get_rank_info(ranking[i])]
             table == pad_dictionary(infos)
         IN  [raised |-> "none",
              text |-> join(<<"\n">>,
                            [i \in 1..Len(table) |-> get_ranking_str(table[i])])]

\* A score as the platform gives it (a number) or as the forfeit rule
\* rewrites it (a text).
Number(n) == [numeric |-> TRUE, number |-> n, text |-> ""]
Text(t) == [numeric |-> FALSE, number |-> 0, text |-> t]

\* A slip: the two texts interchanged.
apply_match_forfeit_swapped(team) ==
    IF team.forfeit
    THEN [team EXCEPT !.score = Text("W")]
    ELSE [team EXCEPT !.score = Text("FF")]

\* __apply_match_forfeit
apply_match_forfeit(team) ==
    IF team.forfeit
    THEN [team EXCEPT !.score = Text("FF")]
    ELSE [team EXCEPT !.score = Text("W")]

\* A slip: `and` for `or`.
forfeit_by_both(home_team, away_team) ==
    home_team.forfeit /\ away_team.forfeit

\* if home_team["forfeit"] or away_team["forfeit"]
forfeit_in_match(home_team, away_team) ==
    home_team.forfeit \/ away_team.forfeit

\* One side of the dict __get_match_info returns.
team_info_of(team) ==
    [name |-> team.participant.name,
     emote |-> team.participant.custom_fields.emote,
     short |-> team.participant.custom_fields.short_name,
     score |-> team.score]

\* __get_match_info
get_match_info(match) ==
    LET forfeit == forfeit_in_match(match.opponents[1], match.opponents[2])
        home_team == IF forfeit THEN apply_match_forfeit(match.opponents[1])
                     ELSE match.opponents[1]
        away_team == IF forfeit THEN apply_match_forfeit(match.opponents[2])
                     ELSE match.opponents[2]
    IN  [status |-> match.status,
         home_team |-> team_info_of(home_team),
         away_team |-> team_info_of(away_team)]

\* f"<:{emoji.name}:{emoji.id}>"
mention(emoji) == <<"<:", emoji.name, ":", emoji.id, ">">>

\* __get_emote_id: the mention of the first emote of the guild whose name
\* is emote_name up to letter case, as <<mention>>, or None, as <<>>.
get_emote_id(emojis, emote_name) ==
    LET hits == {k \in 1..Len(emojis) : lower(emojis[k].name) = lower(emote_name)}
    IN  IF hits = {} THEN <<>>
        ELSE <<mention(emojis[CHOOSE k \in hits : \A j \in hits : k <= j])>>

\* The loop of __team_name_to_emote_name from one character on.
RECURSIVE emote_name_from(_, _)
emote_name_from(team_name, prev_whitespace) ==
    IF team_name = <<>> THEN <<>>
    ELSE LET char == Head(team_name)
         IN  IF char = " "
             THEN emote_name_from(Tail(team_name), TRUE)
             ELSE IF prev_whitespace
             THEN upper(<<char>>) \o emote_name_from(Tail(team_name), FALSE)
             ELSE <<char>> \o emote_name_from(Tail(team_name), FALSE)

\* __team_name_to_emote_name
team_name_to_emote_name(team_name) == emote_name_from(team_name, TRUE)

\* __find_emote_id; team_info.emote is <<>> for None, <<name>> otherwise.
find_emote_id(emojis, team_info) ==
    LET given == IF team_info.emote # <<>>
                 THEN get_emote_id(emojis, team_info.emote[1])
                 ELSE <<>>
        guessed_emote == team_name_to_emote_name(team_info.name)
        guessed == get_emote_id(emojis, guessed_emote)
    IN  IF given # <<>> THEN given[1]
        ELSE IF guessed = <<>> THEN <<":grey_question:">>
        ELSE guessed[1]

\* colour_code.strip('#'): every '#' at either end is taken off.
strip(code, char) ==
    LET kept == {i \in 1..Len(code) : code[i] # char}
    IN  IF kept = {} THEN <<>>
        ELSE SubSeq(code, CHOOSE i \in kept : \A j \in kept : i <= j,
                          CHOOSE i \in kept : \A j \in kept : j <= i)

\* code[start:stop]
slice(code, start, stop) ==
    IF start >= Min(stop, Len(code)) THEN <<>>
    ELSE SubSeq(code, start + 1, Min(stop, Len(code)))

HexDigits == DecimalDigits \o <<"A", "B", "C", "D", "E", "F">>

\* int(text, 16) of a text made of hex digits.
RECURSIVE hex_value(_)
hex_value(text) ==
    IF text = <<>> THEN 0
    ELSE LET last == upper(<<text[Len(text)]>>)[1]
             digit == CHOOSE d \in 1..Len(HexDigits) : HexDigits[d] = last
         IN  hex_value(SubSeq(text, 1, Len(text) - 1)) * Len(HexDigits)
             + digit - 1

\* int(text, 16) raises ValueError for the empty text and for a text with
\* a character that is no hex digit (of the characters drawn here).
int_raises(text) ==
    \/ text = <<>>
    \/ \E i \in 1..Len(text) :
         \A d \in 1..Len(HexDigits) : HexDigits[d] # upper(<<text[i]>>)[1]

\* __str_to_colour: the arguments given to discord.Colour.from_rgb, which
\* takes any three integers.
str_to_colour(colour_code) ==
    LET code == strip(colour_code, "#")
        parts == <<slice(code, 0, 2), slice(code, 2, 4), slice(code, 4, Len(code))>>
    IN  IF \E k \in 1..Len(parts) : int_raises(parts[k])
        THEN [raised |-> "ValueError", rgb |-> <<>>]
        ELSE [raised |-> "none",
              rgb |-> [k \in 1..Len(parts) |-> hex_value(parts[k])]]

(***************************************************************************)
(* The inputs the functions are applied to.                                *)
(***************************************************************************)
RedDevils == <<"r", "e", "d", " ", "d", "e", "v", "i", "l", "s">>

\* Ranking items: with and without rank and short name, values of one and
\* of two digits, a negative, a zero and a positive score difference.
RankingItems ==
    [rank : {<<>>, <<10>>}, position : {2},
     short_name : {<<>>, << <<"R", "D">> >>}, name : {RedDevils},
     wins : {0, 10}, losses : {3}, score_difference : {-12, 0, 7}]

Rankings == UNION {[1..n -> RankingItems] : n \in 0..MaxRows}

Participant(name) ==
    [name |-> name, custom_fields |-> [emote |-> <<>>, short_name |-> <<>>]]

Opponents(name) ==
    [forfeit : BOOLEAN, score : {Number(0), Number(2)},
     participant : {Participant(name)}]

Matches ==
    {[status |-> "completed", opponents |-> <<home_team, away_team>>] :
        home_team \in Opponents(RedDevils), away_team \in Opponents(<<"V">>)}

\* The custom emotes of a guild, in the guild's order.
EmojiLists ==
    LET rd == [name |-> <<"r", "d">>, id |-> 1]
        reddevils == [name |-> upper(team_name_to_emote_name(RedDevils)), id |-> 2]
    IN  {<<>>, <<rd>>, <<reddevils>>, <<rd, reddevils>>, <<reddevils, rd>>}

\* Teams: no emote configured, one that some guilds have, one that none
\* has; names with a space, a tab, two spaces and capitals.
TeamInfos ==
    [emote : {<<>>, << <<"R", "D">> >>, << <<"x">> >>},
     name : {RedDevils,
             <<"r", "e", "d", "\t", "d", "e", "v", "i", "l", "s">>,
             <<"R", "E", "D", " ", " ", "d", "E", "V", "I", "L", "S">>,
             <<"v", " ">>}]

\* Colour codes: every text of up to MaxColourLen of these characters, and
\* three codes with other hex digits.
ColourChars == {"#", "0", "F", "Z"}

ColourCodes ==
    UNION {[1..n -> ColourChars] : n \in 0..MaxColourLen}
    \cup {<<"#", "0", "0", "A", "A", "F", "F">>, <<"0", "0", "A", "A", "F", "F">>,
          <<"0", "0", "a", "a", "f", "f">>}

NotApplied == rendered = NothingRendered

Rendered(function, input, output) ==
    rendered' = [function |-> function, input |-> input, output |-> output]

ranking_text ==
    \E ranking \in Rankings :
        Rendered("generate_ranking_text", ranking,
                 generate_ranking_text(ranking))

match_info ==
    \E match \in Matches :
        Rendered("get_match_info", match, get_match_info(match))

emote_id ==
    \E emojis \in EmojiLists, team_info \in TeamInfos :
        Rendered("find_emote_id", [emojis |-> emojis, team_info |-> team_info],
                 find_emote_id(emojis, team_info))

colour ==
    \E colour_code \in ColourCodes :
        Rendered("str_to_colour", colour_code, str_to_colour(colour_code))

\* The functions keep nothing from one application to the next: each is
\* applied once, to any of its inputs.
RenderNext ==
    \/ NotApplied /\ ranking_text /\ UNCHANGED <<clientVars, bufferVars, botVars, loopVars>>
    \/ NotApplied /\ match_info /\ UNCHANGED <<clientVars, bufferVars, botVars, loopVars>>
    \/ NotApplied /\ emote_id /\ UNCHANGED <<clientVars, bufferVars, botVars, loopVars>>
    \/ NotApplied /\ colour /\ UNCHANGED <<clientVars, bufferVars, botVars, loopVars>>

\* The functions read nothing of the client: it stays as it starts.
RenderInit == BufferInit

RenderSpec == RenderInit /\ [][RenderNext]_vars

(***************************************************************************)
(* The registries of the embed generator and the permission list           *)
(* (src/permission_manager.py): lists of records, saved after each change. *)
(***************************************************************************)
add_stage(content, alias, group_info, logo_url, stage_colour) ==
    Append(content, [alias |-> lower(alias), group |-> group_info,
                     logo |-> logo_url, colour |-> stage_colour])

remove_stage(content, alias) ==
    SelectSeq(content,
              LAMBDA stage : ~(stage.alias = alias) /\ ~(stage.group.name = alias))

\* EmbedGenerator.get_stage: <<stage>>, or <<>> for None.
get_registered_stage(content, stage_name) ==
    LET hits == {k \in 1..Len(content) :
                   \/ content[k].alias = lower(stage_name)
                   \/ content[k].group.name = lower(stage_name)}
    IN  IF hits = {} THEN <<>>
        ELSE <<content[CHOOSE k \in hits : \A j \in hits : k <= j]>>

add_sequence(content, alias, stage_list) ==
    Append(content, [alias |-> lower(alias), groups |-> stage_list])

remove_sequence(content, alias) ==
    SelectSeq(content, LAMBDA sequence : ~(sequence.alias = alias))

\* EmbedGenerator.get_sequence: <<sequence>>, or <<>> for None.
get_sequence(content, sequence_name) ==
    LET hits == {k \in 1..Len(content) : content[k].alias = lower(sequence_name)}
    IN  IF hits = {} THEN <<>>
        ELSE <<content[CHOOSE k \in hits : \A j \in hits : k <= j]>>

\* The guilds the bot is in, and the roles of each (role ids are unique
\* across guilds).
Guilds == {"g1", "g2"}
RolesOf(guild) == IF guild = "g1" THEN {"r1"} ELSE {"r2"}
AllRoles == UNION {RolesOf(guild) : guild \in Guilds}
GuildOf(role) == CHOOSE guild \in Guilds : role \in RolesOf(guild)

add_role(content, role) ==
    Append(content, [guild |-> GuildOf(role), role |-> role])

\* A slip: the loop stops at the first entry it drops.
RECURSIVE remove_first_role(_, _)
remove_first_role(content, role) ==
    IF content = <<>> THEN <<>>
    ELSE IF Head(content) = [guild |-> GuildOf(role), role |-> role]
    THEN Tail(content)
    ELSE <<Head(content)>> \o remove_first_role(Tail(content), role)

remove_role(content, role) ==
    SelectSeq(content,
              LAMBDA perm_role : \/ ~(perm_role.guild = GuildOf(role))
                                 \/ ~(perm_role.role = role))

\* A slip: any role of the member counts, listed or not.
has_perms_for_any_role(ctx, content) ==
    \/ ctx.administrator
    \/ ctx.roles # {}

has_perms(ctx, content) ==
    \/ ctx.administrator
    \/ \E member_role \in ctx.roles : \E k \in 1..Len(content) :
          /\ GuildOf(member_role) = content[k].guild
          /\ member_role = content[k].role

(***************************************************************************)
(* generate_embed and generate_sequence_embeds.  The client is taken here  *)
(* by what its methods give back: what the platform answers to the fetches *)
(* of a command is drawn with the command, and `calls` lists the client's  *)
(* methods called, in order.  The client's own state, its buffers          *)
(* included, is the subject of the specifications above.                   *)
(***************************************************************************)
\* Per embed: the tournament document or <<>> for a failed request, the
\* ranking, and whether the request for the matches succeeds.  An answer
\* that follows a failed request is never asked for.
Answers(tournament, ranking_ok, items, matches_ok) ==
    [tournament |-> tournament, ranking |-> [ok |-> ranking_ok, items |-> items],
     matches_ok |-> matches_ok]

RankingsAnswered ==
    {<<>>} \cup {<<item>> : item \in {i \in RankingItems :
                                        /\ i.rank = <<>> /\ i.short_name = <<>>
                                        /\ i.wins = 0 /\ i.score_difference = 0}}

PlatformAnswers ==
    LET document == <<"tournament-as-created">>
    IN  {Answers(<<>>, FALSE, <<>>, FALSE), Answers(document, FALSE, <<>>, FALSE)}
            \cup {Answers(document, TRUE, items, matches_ok) :
                     items \in RankingsAnswered, matches_ok \in BOOLEAN}

\* The colour given to every stage added.
StageColours == {<<"#", "0", "0", "A", "A", "F", "F">>}

\* __generate_ranking_text and __str_to_colour on the rankings answered and
\* on the colours given, computed once.
ranking_text_of == [items \in RankingsAnswered |-> generate_ranking_text(items)]
colour_of == [stage_colour \in StageColours |-> str_to_colour(stage_colour)]

Embed(raised, calls) == [raised |-> raised, calls |-> calls]

generate_embed(content, stage_name, platform) ==
    LET stage == get_registered_stage(content, stage_name)
        ranking == ranking_text_of[platform.ranking.items]
    IN  IF stage = <<>>
        \* stage["group"] with stage = None
        THEN Embed("TypeError", <<>>)
        ELSE IF platform.tournament = <<>>
        THEN Embed("HTTPError", <<"get_tournament">>)
        ELSE IF ~platform.ranking.ok
        THEN Embed("HTTPError", <<"get_tournament", "get_ranking">>)
        ELSE
    LET calls == <<"get_tournament", "get_ranking", "get_matches">>
    IN  IF ~platform.matches_ok THEN Embed("HTTPError", calls)
        ELSE IF ranking.raised # "none" THEN Embed(ranking.raised, calls)
        ELSE Embed(colour_of[stage[1].colour].raised, calls)

\* The list comprehension of generate_sequence_embeds from group k on: it
\* ends with the first embed that raises.
RECURSIVE embeds_from(_, _, _, _, _)
embeds_from(content, groups, k, platform, calls) ==
    IF k > Len(groups) THEN Embed("none", calls)
    ELSE LET embed == generate_embed(content, groups[k], platform)
         IN  IF embed.raised # "none"
             THEN Embed(embed.raised, calls \o embed.calls)
             ELSE embeds_from(content, groups, k + 1, platform,
                              calls \o embed.calls)

generate_sequence_embeds(content, sequence_content, sequence_name, platform) ==
    LET sequence == get_sequence(sequence_content, sequence_name)
    IN  IF sequence = <<>>
        \* sequence["groups"] with sequence = None
        THEN Embed("TypeError", <<>>)
        ELSE embeds_from(content, sequence[1].groups, 1, platform, <<>>)

(***************************************************************************)
(* The commands of the bot (src/bot.py).  Each is handled in one step,     *)
(* from the permission check to the message sent or the exception that     *)
(* leaves the handler.                                                     *)
(***************************************************************************)
\* Who sends a command: in either guild, an administrator without roles or a
\* member with the guild's role, and in the first a member without roles.
Contexts ==
    {ctx \in [guild : Guilds, administrator : BOOLEAN,
              roles : {{}} \cup {{role} : role \in AllRoles}] :
        /\ \A role \in ctx.roles : GuildOf(role) = ctx.guild
        /\ ctx.administrator => ctx.roles = {}
        /\ (~ctx.administrator /\ ctx.roles = {}) => ctx.guild = "g1"}

\* The arguments given to the commands.
AddedTournaments == {"t1"}
Aliases == {<<"X">>}
StageNames == {<<"X">>, <<"x">>, <<"a", "b">>, <<"A", "b">>}
SequenceNames == {<<"S">>, <<"s">>}
SequenceGroups == {<< <<"x">>, <<"a", "b">> >>}

\* What the platform answers to get_groups: <<>> for a failed request, or
\* <<n>> for a listing of n groups.
Listings == {<<>>} \cup {<<n>> : n \in GroupCounts}

Handled(name, ctx, target, role, reply, raised, calls) ==
    command' = [name |-> name, ctx |-> ctx, target |-> target, role |-> role,
                reply |-> reply, raised |-> raised, calls |-> calls,
                before |-> roles]

\* await ctx.send("Permission denied"); return
Denied(name, ctx) ==
    /\ Handled(name, ctx, <<>>, "none", "Permission denied", "none", <<>>)
    /\ UNCHANGED <<stages, sequences, roles>>

ping ==
    \E ctx \in Contexts :
        /\ Handled("ping", ctx, <<>>, "none",
                   IF has_perms(ctx, roles) THEN "pong" ELSE "none", "none", <<>>)
        /\ UNCHANGED <<stages, sequences, roles>>

addgroup ==
    \E ctx \in Contexts :
        IF ~has_perms(ctx, roles) THEN Denied("addgroup", ctx)
        ELSE \E tournament_id \in AddedTournaments, group_name \in GroupNames,
                alias \in Aliases, stage_colour \in StageColours,
                listing \in Listings :
             IF listing = <<>>
             THEN /\ Handled("addgroup", ctx, <<>>, "none", "none", "HTTPError",
                             <<"get_group_info">>)
                  /\ UNCHANGED <<stages, sequences, roles>>
             ELSE LET groups == groups_of(Slice(listing[1], 0, listing[1] - 1))
                      k == group_index(groups, group_name)
                      group_info == group_found(groups, k, tournament_id).group
                  IN  /\ IF group_info = <<>>
                         THEN /\ Handled("addgroup", ctx, <<>>, "none",
                                         "Couldn't find group", "none",
                                         <<"get_group_info">>)
                              /\ UNCHANGED stages
                         ELSE /\ Len(stages) < MaxStages
                              /\ stages' = add_stage(stages, alias, group_info[1],
                                                     "logo", stage_colour)
                              /\ Handled("addgroup", ctx, <<>>, "none",
                                         "Added group", "none",
                                         <<"get_group_info">>)
                      /\ UNCHANGED <<sequences, roles>>

removegroup ==
    \E ctx \in Contexts :
        IF ~has_perms(ctx, roles) THEN Denied("removegroup", ctx)
        ELSE \E group_name \in StageNames :
             /\ stages' = remove_stage(stages, group_name)
             /\ Handled("removegroup", ctx, group_name, "none", "Removed group",
                        "none", <<>>)
             /\ UNCHANGED <<sequences, roles>>

group ==
    \E ctx \in Contexts :
        IF ~has_perms(ctx, roles) THEN Denied("group", ctx)
        ELSE \E group_name \in StageNames, platform \in PlatformAnswers :
             LET embed == generate_embed(stages, group_name, platform)
             IN  /\ Handled("group", ctx, group_name, "none",
                            IF embed.raised = "none" THEN "embed" ELSE "none",
                            embed.raised, embed.calls)
                 /\ UNCHANGED <<stages, sequences, roles>>

addsequence ==
    \E ctx \in Contexts :
        IF ~has_perms(ctx, roles) THEN Denied("addsequence", ctx)
        ELSE \E seq_name \in SequenceNames, groups \in SequenceGroups :
             /\ Len(sequences) < MaxSequences
             /\ sequences' = add_sequence(sequences, seq_name, groups)
             /\ Handled("addsequence", ctx, <<>>, "none", "Created sequence",
                        "none", <<>>)
             /\ UNCHANGED <<stages, roles>>

removesequence ==
    \E ctx \in Contexts :
        IF ~has_perms(ctx, roles) THEN Denied("removesequence", ctx)
        ELSE \E seq_name \in SequenceNames :
             /\ sequences' = remove_sequence(sequences, seq_name)
             /\ Handled("removesequence", ctx, <<>>, "none", "Removed sequence",
                        "none", <<>>)
             /\ UNCHANGED <<stages, roles>>

sequence ==
    \E ctx \in Contexts :
        IF ~has_perms(ctx, roles) THEN Denied("sequence", ctx)
        ELSE \E seq_name \in SequenceNames, platform \in PlatformAnswers :
             LET embeds == generate_sequence_embeds(stages, sequences, seq_name,
                                                    platform)
             IN  /\ Handled("sequence", ctx, seq_name, "none",
                            IF embeds.raised = "none" THEN "embeds" ELSE "none",
                            embeds.raised, embeds.calls)
                 /\ UNCHANGED <<stages, sequences, roles>>

\* addrole while the permission list has fewer than `limit` entries.
addrole_within(limit) ==
    \E ctx \in Contexts, role \in AllRoles :
        IF ~ctx.administrator THEN Denied("addrole", ctx)
        ELSE IF ~(GuildOf(role) = ctx.guild) THEN Denied("addrole", ctx)
        ELSE /\ Len(roles) < limit
             /\ roles' = add_role(roles, role)
             /\ Handled("addrole", ctx, <<>>, role,
                        "Users now have permissions", "none", <<>>)
             /\ UNCHANGED <<stages, sequences>>

addrole == addrole_within(MaxRoles)

removerole ==
    \E ctx \in Contexts, role \in AllRoles :
        IF ~ctx.administrator THEN Denied("removerole", ctx)
        ELSE IF ~(GuildOf(role) = ctx.guild) THEN Denied("removerole", ctx)
        ELSE /\ roles' = remove_role(roles, role)
             /\ Handled("removerole", ctx, <<>>, role, "none", "none", <<>>)
             /\ UNCHANGED <<stages, sequences>>

\* What the commands leave alone.
beyondBot == <<clientVars, bufferVars, renderVars, loopVars>>

BotNext ==
    \/ ping /\ UNCHANGED beyondBot
    \/ addgroup /\ UNCHANGED beyondBot
    \/ removegroup /\ UNCHANGED beyondBot
    \/ group /\ UNCHANGED beyondBot
    \/ addsequence /\ UNCHANGED beyondBot
    \/ removesequence /\ UNCHANGED beyondBot
    \/ sequence /\ UNCHANGED beyondBot
    \/ addrole /\ UNCHANGED beyondBot
    \/ removerole /\ UNCHANGED beyondBot

BotInit == BufferInit

BotSpec == BotInit /\ [][BotNext]_vars

(***************************************************************************)
(* The role commands alone, with ping to ask who is permitted, on longer   *)
(* permission lists.                                                       *)
(***************************************************************************)
PermissionNext ==
    \/ addrole_within(MaxListed) /\ UNCHANGED beyondBot
    \/ removerole /\ UNCHANGED beyondBot
    \/ ping /\ UNCHANGED beyondBot

PermissionSpec == BotInit /\ [][PermissionNext]_vars

(***************************************************************************)
(* Commands on the event loop.  Every command is a coroutine of the bot's  *)
(* single event loop: the loop runs one coroutine until it awaits, and     *)
(* only then another.  The handlers await nothing but ctx.send; the client *)
(* sleeps with pause.until and waits for the network inside requests.get   *)
(* and requests.post, which return only when they are done.  A command     *)
(* here is a number of calls of the request methods, one after the other,  *)
(* with or without authorization; what a request carries and how a fetch   *)
(* is paginated is left to the specifications above.                       *)
(***************************************************************************)
Commands == 1..MaxCommands

\* A slip: the rate limiter's pause awaited, so that the loop runs other
\* coroutines while it lasts.
awaits_while_paused(at) == at \in {"replying", "paused"}

\* Where a coroutine gives the loop up: await ctx.send(...).
awaits(at) == at = "replying"

\* The loop after a step that leaves command i at `at`.
Yield(i, at) == loop' = IF awaits(at) \/ at = "done" THEN 0 ELSE i

\* The loop runs command i, or nothing.
MayRun(i) == loop = i \/ loop = 0

\* self.__api_cooldown = now + 333 ms, and the request leaves, at time t.
Leaves(t, purpose) ==
    /\ now' = t
    /\ api_cooldown' = t + time_per_request
    /\ gap' = IF request.verb = "none" THEN -1 ELSE t - request.sent
    /\ request' = [NoRequest EXCEPT
                      !.verb = IF purpose = "refresh" THEN "POST" ELSE "GET",
                      !.purpose = purpose, !.entered = t, !.sent = t]

\* __check_auth_token at time t: the request to send next.
purpose_of(authorization, t, creds) ==
    IF authorization /\ has_api_token_expired(t, creds)
    THEN "refresh" ELSE "data"

\* __respect_rate_limits entered at time t by command i with the locals
\* `task`: it reads the cooldown and pauses, or sets it and sends at once.
enter_rate_limits(i, t, task) ==
    IF t < api_cooldown
    THEN /\ tasks' = [tasks EXCEPT ![i] = [task EXCEPT !.at = "paused",
                                                       !.wake = api_cooldown]]
         /\ now' = t
         /\ Yield(i, "paused")
         /\ UNCHANGED <<api_cooldown, gap, request>>
    ELSE /\ tasks' = [tasks EXCEPT ![i] = [task EXCEPT !.at = "waiting",
                                                       !.wake = 0]]
         /\ Leaves(t, task.purpose)
         /\ Yield(i, "waiting")

\* A command is sent in the chat while the bot does whatever it does.
dispatch ==
    \E i \in Commands :
        /\ tasks[i].at = "none"
        /\ \A j \in 1..(i - 1) : tasks[j].at # "none"
        /\ tasks' = [tasks EXCEPT ![i].at = "queued"]
        /\ UNCHANGED <<now, api_cooldown, gap, request, credentials, cred_file,
                       loop>>

\* The loop starts the coroutine of a command: the handler up to the rate
\* limiter of its first request.
begin ==
    \E i \in Commands, left \in 1..MaxCalls, authorization \in BOOLEAN :
        /\ tasks[i].at = "queued"
        /\ loop = 0
        /\ enter_rate_limits(i, now,
               [NoTask EXCEPT !.left = left, !.authorization = authorization,
                              !.purpose = purpose_of(authorization, now,
                                                     credentials)])
        /\ UNCHANGED <<credentials, cred_file>>

\* pause.until returns: the cooldown is set and the request leaves.
resume ==
    \E i \in Commands :
        /\ tasks[i].at = "paused"
        /\ MayRun(i)
        /\ tasks' = [tasks EXCEPT ![i].at = "waiting", ![i].wake = 0]
        /\ Leaves(IF now < tasks[i].wake THEN tasks[i].wake ELSE now,
                  tasks[i].purpose)
        /\ Yield(i, "waiting")
        /\ UNCHANGED <<credentials, cred_file>>

\* The credentials a token answer may bring.
LoopTokenResponses ==
    {response \in TokenResponses :
        response.access_token = 1 /\ response.expires_in = 71}

\* The calls of the command are over: its locals are gone.
Ended(at) == [NoTask EXCEPT !.at = at]

\* requests.get or requests.post returns: the exception of a failure leaves
\* the handler; a token is stored and the data request follows; after a
\* data request comes the next call, or the reply.
answer ==
    \E i \in Commands, lat \in Latencies, ok \in BOOLEAN :
        LET t == now + lat
            task == tasks[i]
        IN  /\ task.at = "waiting"
            /\ loop = i
            /\ IF ~ok
               THEN /\ tasks' = [tasks EXCEPT ![i] = Ended("done")]
                    /\ now' = t
                    /\ Yield(i, "done")
                    /\ UNCHANGED <<api_cooldown, gap, request, credentials,
                                   cred_file>>
               ELSE IF task.purpose = "refresh"
               THEN \E response \in LoopTokenResponses :
                      /\ credentials' =
                            update_api_credentials(t, credentials, response)
                      /\ cred_file' = dump_credentials(t, credentials, response)
                      /\ enter_rate_limits(i, t,
                                           [task EXCEPT !.purpose = "data"])
               ELSE IF task.left = 1
               THEN /\ tasks' = [tasks EXCEPT ![i] = Ended("replying")]
                    /\ now' = t
                    /\ Yield(i, "replying")
                    /\ UNCHANGED <<api_cooldown, gap, request, credentials,
                                   cred_file>>
               ELSE /\ enter_rate_limits(i, t,
                          [task EXCEPT !.left = task.left - 1,
                                       !.purpose =
                                          purpose_of(task.authorization, t,
                                                     credentials)])
                    /\ UNCHANGED <<credentials, cred_file>>

\* ctx.send is done and the handler returns.
replied ==
    \E i \in Commands :
        /\ tasks[i].at = "replying"
        /\ loop = 0
        /\ tasks' = [tasks EXCEPT ![i].at = "done"]
        /\ UNCHANGED <<now, api_cooldown, gap, request, credentials, cred_file,
                       loop>>

\* What the steps of the commands on the loop leave alone.
beyondLoop ==
    <<default_headers, pc, call, pageVars, op_log, outcome, result, run,
      last_refresh, bufferVars, renderVars, botVars>>

LoopNext ==
    \/ dispatch /\ UNCHANGED beyondLoop
    \/ begin /\ UNCHANGED beyondLoop
    \/ resume /\ UNCHANGED beyondLoop
    \/ answer /\ UNCHANGED beyondLoop
    \/ replied /\ UNCHANGED beyondLoop

LoopSpec == Init /\ [][LoopNext]_vars

(***************************************************************************)
(* Properties of the paginated fetch.                                      *)
(***************************************************************************)
IsPaged == call.method = "request_get_pages"
LastStatus == op_log[Len(op_log)].status

\* C1: after a successful page answer with a well-formed Content-Range
\* a-b/n, if b < n-1 the next request is in flight with the Range window
\* b+1 .. b+50, and if b = n-1 no request follows and the fetch has returned.
C1_NextWindow ==
    last_page.header = "range" =>
        LET b == last_page.range[2]
            n == last_page.range[3]
        IN  /\ b < n - 1 =>
                 /\ pc = "data"
                 /\ LastStatus = "pending"
                 /\ request.headers["Range"] =
                        <<call.unit, b + 1, b + items_per_request>>
            /\ b = n - 1 =>
                 /\ pc = "idle"
                 /\ outcome = "returned"
                 /\ LastStatus = "ok"

\* A third request follows the second answer, whose range ended before the
\* total.
C1_Witness ==
    /\ last_page.header = "range"
    /\ last_page.range[2] < last_page.range[3] - 1
    /\ Len(op_log) = 3
    /\ request.headers["Range"][2] = last_page.range[2] + 1

\* The number of windows of items_per_request items that hold n items.
PagesOf(n) == IF n = 0 THEN 1 ELSE (n + items_per_request - 1) \div items_per_request

\* The page requests the call has sent.
PageRequests == Cardinality({i \in 1..Len(op_log) : op_log[i].purpose = "data"})

\* C2: from a server that holds n items, honours every window and reports
\* the total n, the fetch returns the n items, each once and in server
\* order, with no request beyond the one that reaches the total.
C2_AllItemsOnce ==
    (IsPaged /\ call.faithful /\ call.name # "none") =>
        /\ PageRequests <= PagesOf(call.n)
        /\ pc = "idle" =>
             /\ outcome = "returned"
             /\ result = <<Slice(call.n, 0, call.n - 1)>>
             /\ PageRequests = PagesOf(call.n)

\* A listing of more than two pages has been returned whole.
C2_Witness ==
    /\ IsPaged /\ call.faithful /\ pc = "idle" /\ outcome = "returned"
    /\ call.n > 2 * items_per_request
    /\ Len(result[1]) = call.n
    /\ Len(op_log) = 3

\* C3: a successful page answer whose Content-Range header is missing or
\* does not match the format ends the fetch without an error: the items
\* gathered so far, its own included, are returned.
C3_MalformedEndsFetch ==
    last_page.header \in {"missing", "nomatch"} =>
        /\ pc = "idle"
        /\ outcome = "returned"
        /\ result = <<page_list>>

\* C4: a request answered with a failure status is the last request of its
\* call, and the call has ended in the request failure with no result.
C4_FailureAborts ==
    \A i \in 1..Len(op_log) :
        op_log[i].status = "error" =>
            /\ i = Len(op_log)
            /\ pc = "idle"
            /\ outcome = "HTTPError"
            /\ result = <<>>

\* The second page of a fetch failed: the first page's items were gathered
\* and are not returned.
C4_Witness ==
    /\ IsPaged
    /\ Len(op_log) = 2
    /\ op_log[2].status = "error"
    /\ page_list # <<>>
    /\ outcome = "HTTPError"
    /\ result = <<>>

(***************************************************************************)
(* Properties of the rate limiter.                                         *)
(***************************************************************************)
\* C5: two consecutive requests of a client are sent at least
\* time_per_request apart, and after a request the next allowed time is the
\* time it was sent plus time_per_request.
C5_MinimumGap ==
    /\ gap # -1 => gap >= time_per_request
    /\ request.verb # "none" =>
         /\ api_cooldown = request.sent + time_per_request
         /\ request.sent >= request.entered

\* The data request follows the token request of the same call after
\* exactly the spacing.
C5_Witness ==
    /\ gap = time_per_request
    /\ Len(op_log) = 2
    /\ op_log[1].purpose = "refresh"
    /\ request.purpose = "data"

\* C6: the first request of a client is sent without delay, a request
\* that is delayed is sent exactly at the stored next allowed time (the
\* previous send plus the spacing), and three requests made back to back
\* (no latency, no idle time) take at least 2 * 333 ms and less than a
\* second from the first to the third.
C6_ThreeRequests ==
    /\ (call.first /\ Len(op_log) = 1) =>
         /\ request.sent = request.entered
         /\ request.sent = call.at
    /\ request.sent > request.entered => gap = time_per_request
    /\ Len(run) = 3 =>
         /\ run[3] - run[1] >= 2 * time_per_request
         /\ run[3] - run[1] < MsPerSec

\* The three requests of one fetch on a fresh client, sent back to back.
C6_Witness ==
    /\ call.first
    /\ Len(op_log) = 3
    /\ Len(run) = 3
    /\ run[1] = call.at
    /\ run[3] = call.at + 2 * time_per_request

(***************************************************************************)
(* Properties of the credential store and of the request headers.          *)
(***************************************************************************)
PublicFetches == {"get_ranking", "get_matches", "get_groups", "get_stage"}

\* The credentials held when the call started expire within the minute.
StartedStale == call.expiry - call.at < ExpiryLookaheadSec * MsPerSec

IsRefresh(i) == op_log[i].purpose = "refresh"

\* C7 as stated: a data fetch started with credentials that expire within
\* 60 seconds sends a token-refresh POST first.
C7_FetchRefreshes ==
    (call.name \in {"get_ranking", "get_matches", "get_groups"} /\ StartedStale) =>
        IsRefresh(1)

\* C7, amended: a request method called with authorization required while
\* the credentials expire within 60 seconds sends exactly one token POST,
\* first; once a dependent request is sent, the new token and expiry are
\* held and are in the credential file, and the request carries the new
\* token.  A public fetch sends no token POST.
C7_AuthorizedRefresh ==
    /\ (call.authorization /\ StartedStale) =>
         /\ IsRefresh(1)
         /\ \A i \in 2..Len(op_log) : ~IsRefresh(i)
         /\ Len(op_log) > 1 =>
              /\ op_log[1].status = "ok"
              /\ last_refresh # <<>>
              /\ last_refresh[1].issued >= call.at
              /\ credentials.auth_key = last_refresh[1].access_token
              /\ cred_file.auth_key = credentials.auth_key
              /\ cred_file.auth_expiry = strftime(credentials.auth_expiry)
              /\ request.headers["Authorization"] = credentials.auth_key
    /\ call.name \in PublicFetches =>
         \A i \in 1..Len(op_log) : ~IsRefresh(i)

\* An authorized call that found stale credentials has its data request in
\* flight, after the one token request.
C7_Witness ==
    /\ call.authorization /\ StartedStale
    /\ pc = "data"
    /\ Len(op_log) = 2
    /\ op_log[1] = [purpose |-> "refresh", status |-> "ok"]
    /\ cred_file.auth_key = last_refresh[1].access_token

PlatformExpiry == last_refresh[1].issued + last_refresh[1].expires_in * MsPerSec

\* C9 as stated: after a refresh the stored auth_expiry is at least 10
\* seconds before the platform's expiry of the token.
C9_MarginFromIssue ==
    last_refresh # <<>> =>
        credentials.auth_expiry + ExpiryMarginSec * MsPerSec <= PlatformExpiry

\* C9, amended: after a refresh the stored auth_expiry is expires_in minus
\* 10 seconds after the moment the answer was handled, so it precedes the
\* platform's expiry by 10 seconds minus the time since the token was issued.
C9_MarginFromReceipt ==
    last_refresh # <<>> =>
        LET r == last_refresh[1]
        IN  /\ credentials.auth_expiry =
                   r.processed + (r.expires_in - ExpiryMarginSec) * MsPerSec
            /\ PlatformExpiry - credentials.auth_expiry =
                   ExpiryMarginSec * MsPerSec - (r.processed - r.issued)

\* A refresh whose answer took time: the margin is below 10 seconds.
C9_Witness ==
    /\ last_refresh # <<>>
    /\ last_refresh[1].processed > last_refresh[1].issued
    /\ PlatformExpiry - credentials.auth_expiry < ExpiryMarginSec * MsPerSec

\* C10: what loading the credential file yields after a refresh equals the
\* auth_expiry held in memory to the second, and a loaded auth_expiry less
\* than 60 seconds after the current time counts as expired.
C10_RoundTrip ==
    LET loaded == load_api_credentials(cred_file)
    IN  /\ last_refresh # <<>> =>
             loaded.auth_expiry \div MsPerSec = credentials.auth_expiry \div MsPerSec
        /\ loaded.auth_expiry - now < ExpiryLookaheadSec * MsPerSec =>
             has_api_token_expired(now, loaded)

\* A restarted client holds the credentials of an earlier refresh, loaded
\* from the file, which expire within the minute; the refresh had stored a
\* time with a fraction of a second.
C10_Witness ==
    /\ last_refresh = <<>>
    /\ credentials.auth_key # 0
    /\ credentials = load_api_credentials(cred_file)
    /\ credentials.auth_expiry - now < ExpiryLookaheadSec * MsPerSec
    /\ credentials.auth_expiry - now > 0

(***************************************************************************)
(* A refused token refresh.                                                *)
(***************************************************************************)
RefreshRefused(log) ==
    /\ Len(log) >= 1
    /\ log[1].purpose = "refresh"
    /\ log[1].status = "error"

\* C11: when the token endpoint answers the refresh POST with a failure
\* status, the call fails, no data request follows the refresh, and the
\* credentials held in memory (token, type, scope, expiry) and the
\* credential file stay as they were.
C11_RefusedRefresh ==
    [][RefreshRefused(op_log') =>
         /\ pc' = "idle"
         /\ outcome' = "HTTPError"
         /\ result' = <<>>
         /\ Len(op_log') = 1
         /\ pc = "refresh" =>
               /\ credentials' = credentials
               /\ cred_file' = cred_file
               /\ request' = request]_vars

C11_Witness ==
    /\ RefreshRefused(op_log)
    /\ outcome = "HTTPError"
    /\ call.authorization
    /\ call.method = "request_get_pages"
    /\ StartedStale
    /\ credentials.auth_expiry = call.expiry
    /\ credentials.auth_scope = "organizer:view"

(***************************************************************************)
(* Properties of the buffered lookups.                                     *)
(***************************************************************************)
\* A lookup that answers from its buffer: it is over at once, it has sent
\* no request and it has left the rate limiter as it was.
AnsweredFromBuffer ==
    /\ pc = "idle"
    /\ outcome = "returned"
    /\ op_log = <<>>
    /\ api_cooldown = arg.cooldown

\* C12: per tournament id at most one request of get_tournament succeeds;
\* once one has, every later get_tournament of that id returns the value it
\* brought, sends no request and leaves the rate limiter alone.
C12_TournamentFetchedOnce ==
    /\ \A id \in TournamentIds : Len(fetched.tournaments[id]) <= 1
    /\ arg.lookup = "get_tournament" /\ arg.fetched_before =>
          /\ AnsweredFromBuffer
          /\ result = <<fetched.tournaments[arg.tournament_id][1]>>

C12_Witness ==
    /\ arg.lookup = "get_tournament"
    /\ arg.fetched_before
    /\ arg.tournament_id = "t2"
    /\ result = <<"tournament-as-created">>
    /\ fetched.tournaments["t1"] = <<"tournament-as-edited">>
    /\ request.verb = "GET"
    /\ now > request.sent

\* The groups of a listing that bear the name.
Bearing(listing, group_name) ==
    {k \in 1..Len(listing) : listing[k].name = group_name}

\* C13: get_group_info returns a group of the tournament's listing whose
\* name is the name asked for, letter case included, with tournament_id
\* set to the id asked for, and None when the listing has no such group;
\* a listing that was fetched is never fetched again, whatever the lookups
\* return.
C13_GroupByExactName ==
    /\ \A id \in TournamentIds : Len(fetched.groups[id]) <= 1
    /\ arg.lookup = "get_group_info" /\ arg.fetched_before => AnsweredFromBuffer
    /\ arg.lookup = "get_group_info" /\ found.returned =>
          LET listing == fetched.groups[arg.tournament_id][1]
          IN  IF Bearing(listing, arg.group_name) = {}
              THEN found.group = <<>>
              ELSE /\ found.group # <<>>
                   /\ found.group[1].name = arg.group_name
                   /\ found.group[1].tournament_id = <<arg.tournament_id>>
                   /\ \E k \in Bearing(listing, arg.group_name) :
                         listing[k].id = found.group[1].id

\* A lookup answered from the buffer finds no group although the listing
\* holds the name in other letter case, after a lookup that found one.
C13_Witness ==
    /\ arg.lookup = "get_group_info"
    /\ arg.fetched_before
    /\ found.returned
    /\ found.group = <<>>
    /\ arg.group_name = <<"A", "B">>
    /\ \E k \in 1..Len(group_buffer[arg.tournament_id]) :
         /\ group_buffer[arg.tournament_id][k].name = <<"a", "b">>
         /\ group_buffer[arg.tournament_id][k].tournament_id = <<arg.tournament_id>>

(***************************************************************************)
(* Properties of the embed generator's functions.                          *)
(***************************************************************************)
\* The values of a ranking's rows before padding, the width of the widest
\* value of a column, and a row's value padded to it on the right.
Natural(ranking) == [i \in 1..Len(ranking) |-> get_rank_info(ranking[i])]

Widest(ranking, key) ==
    CHOOSE w \in {Len(Natural(ranking)[i][key]) : i \in 1..Len(ranking)} :
        \A i \in 1..Len(ranking) : Len(Natural(ranking)[i][key]) <= w

Cell(ranking, i, key) ==
    LET value == Natural(ranking)[i][key]
    IN  value \o [j \in 1..(Widest(ranking, key) - Len(value)) |-> " "]

Line(ranking, i) ==
    Cell(ranking, i, "rank") \o <<" ", "|", " ">> \o
    Cell(ranking, i, "name") \o <<" ", "|", " ">> \o
    Cell(ranking, i, "win_loss") \o <<" ", "|", " ">> \o
    Cell(ranking, i, "diff")

\* C14: the table rendered for a ranking has one line per row, and in every
\* line each of the four columns holds the row's value followed by spaces
\* up to the width of the column's widest value, so that all lines have
\* the same length.  (No table is rendered for a ranking without rows:
\* max() raises ValueError.)
C14_ColumnsPadded ==
    rendered.function = "generate_ranking_text" /\ rendered.input # <<>> =>
        LET ranking == rendered.input
            lines == [i \in 1..Len(ranking) |-> Line(ranking, i)]
        IN  /\ rendered.output.raised = "none"
            /\ rendered.output.text = join(<<"\n">>, lines)
            /\ \A i \in 1..Len(ranking) :
                  /\ Len(lines[i]) = Len(lines[1])
                  /\ \A k \in 1..Len(keys) :
                        Len(Cell(ranking, i, keys[k])) = Widest(ranking, keys[k])

\* Two rows that differ in the width of every column.
C14_Witness ==
    /\ rendered.function = "generate_ranking_text"
    /\ Len(rendered.input) = MaxRows
    /\ rendered.output.raised = "none"
    /\ \A k \in 1..Len(keys) :
         Len(Natural(rendered.input)[1][keys[k]]) <
            Len(Natural(rendered.input)[MaxRows][keys[k]])

Flagged(k) == rendered.input.opponents[k].forfeit

Shown(k) ==
    IF k = 1 THEN rendered.output.home_team.score
    ELSE rendered.output.away_team.score

Sides == {1, 2}
Other(k) == CHOOSE j \in Sides : j # k

\* C15: when exactly one opponent of a match has the forfeit flag, that
\* opponent's score is shown as FF and the other's as W, whatever the
\* scores were and whichever side forfeited.
C15_OneForfeit ==
    rendered.function = "get_match_info" =>
        \A k \in Sides :
            Flagged(k) /\ ~Flagged(Other(k)) =>
                /\ Shown(k) = Text("FF")
                /\ Shown(Other(k)) = Text("W")

\* The away side forfeits a match in which it had the higher score.
C15_Witness ==
    /\ rendered.function = "get_match_info"
    /\ ~Flagged(1) /\ Flagged(2)
    /\ rendered.input.opponents[1].score.number <
          rendered.input.opponents[2].score.number
    /\ Shown(1) = Text("W")
    /\ Shown(2) = Text("FF")

\* C16 as stated: in a match with a forfeit flag, every flagged opponent
\* shows FF and the opponent of every flagged one shows W.
C16_ForfeitAndOpponent ==
    rendered.function = "get_match_info" =>
        \A k \in Sides :
            Flagged(k) => Shown(k) = Text("FF") /\ Shown(Other(k)) = Text("W")

\* C16, amended: in a match with a forfeit flag, every flagged opponent
\* shows FF and every opponent without the flag shows W; when both are
\* flagged, both show FF.
C16_ForfeitOrWin ==
    rendered.function = "get_match_info" /\ (\E k \in Sides : Flagged(k)) =>
        \A k \in Sides :
            Shown(k) = IF Flagged(k) THEN Text("FF") ELSE Text("W")

C16_Witness ==
    /\ rendered.function = "get_match_info"
    /\ \A k \in Sides : Flagged(k) /\ Shown(k) = Text("FF")

\* The guess as the claim words it: every whitespace character removed,
\* the first letter of each word in upper case.
Whitespace == {" ", "\t"}

RECURSIVE WordsJoined(_, _)
WordsJoined(name, word_start) ==
    IF name = <<>> THEN <<>>
    ELSE IF Head(name) \in Whitespace THEN WordsJoined(Tail(name), TRUE)
    ELSE (IF word_start THEN upper(<<Head(name)>>) ELSE <<Head(name)>>)
         \o WordsJoined(Tail(name), FALSE)

\* The mentions of the emotes whose name is the name, up to letter case.
Mentions(emojis, name) ==
    {mention(emojis[k]) : k \in {j \in 1..Len(emojis) :
                                   lower(emojis[j].name) = lower(name)}}

\* C17: the emote of a team is one that bears the configured name, else
\* one that bears the name guessed from the full team name (whitespace
\* removed, first letter of each word in upper case), both up to letter
\* case, and the placeholder exactly when neither name is borne.
C17_EmoteResolution ==
    rendered.function = "find_emote_id" =>
        LET emojis == rendered.input.emojis
            team_info == rendered.input.team_info
            configured == IF team_info.emote = <<>> THEN {}
                          ELSE Mentions(emojis, team_info.emote[1])
            guessed == Mentions(emojis, WordsJoined(team_info.name, TRUE))
        IN  IF configured # {} THEN rendered.output \in configured
            ELSE IF guessed # {} THEN rendered.output \in guessed
            ELSE rendered.output = <<":grey_question:">>

\* The code without its optional leading '#'.
AfterHash(code) ==
    IF code # <<>> /\ Head(code) = "#" THEN Tail(code) ELSE code

SixHexDigits(code) ==
    /\ Len(code) = 6
    /\ \A i \in 1..Len(code) :
         \E d \in 1..Len(HexDigits) : HexDigits[d] = upper(<<code[i]>>)[1]

\* C18: six hex digits, with or without a leading '#', give their red,
\* green and blue bytes ('#00AAFF' and '00AAFF' give 0, 170, 255); every
\* other text ends in a validation error.
C18_ColourOrError ==
    rendered.function = "str_to_colour" =>
        LET digits == AfterHash(rendered.input)
        IN  IF SixHexDigits(digits)
            THEN /\ rendered.output.raised = "none"
                 /\ rendered.output.rgb =
                       <<hex_value(SubSeq(digits, 1, 2)),
                         hex_value(SubSeq(digits, 3, 4)),
                         hex_value(SubSeq(digits, 5, 6))>>
                 /\ digits = <<"0", "0", "A", "A", "F", "F">> =>
                       rendered.output.rgb = <<0, 170, 255>>
            ELSE rendered.output.raised = "ValueError"

(***************************************************************************)
(* Posting under an unregistered name.                                     *)
(***************************************************************************)
\* No registered stage has the name, lowered, as alias or as group name.
NoStageNamed(stage_name) ==
    \A k \in 1..Len(stages) :
        /\ stages[k].alias # lower(stage_name)
        /\ stages[k].group.name # lower(stage_name)

NoSequenceNamed(sequence_name) ==
    \A k \in 1..Len(sequences) : sequences[k].alias # lower(sequence_name)

\* The last command was let through and asked for a name not registered.
UnregisteredAsked ==
    /\ command.reply # "Permission denied"
    /\ \/ command.name = "group" /\ NoStageNamed(command.target)
       \/ command.name = "sequence" /\ NoSequenceNamed(command.target)

\* C19: posting standings for a group alias that matches no registered
\* stage, or for a sequence name that matches no registered sequence, ends
\* in a 'not found' reply and not in an unhandled error, and no method of
\* the client is called, so that no request is sent to the platform.
C19_UnknownNameNotFound ==
    UnregisteredAsked =>
        /\ command.raised = "none"
        /\ command.reply = "not found"
        /\ command.calls = <<>>

(***************************************************************************)
(* Permissions.                                                            *)
(***************************************************************************)
GatedCommands ==
    {"addgroup", "removegroup", "group", "addsequence", "removesequence",
     "sequence"}

RoleCommands == {"addrole", "removerole"}

\* The invoker is an administrator or holds a role that is in the
\* permission list, under that role's guild, before the command.
Permitted(ctx) ==
    \/ ctx.administrator
    \/ \E held \in ctx.roles :
          [guild |-> GuildOf(held), role |-> held] \in
              {roles[k] : k \in 1..Len(roles)}

\* The command of this step changed a registry, called the client or posted
\* standings.
TookEffect ==
    \/ stages' # stages
    \/ sequences' # sequences
    \/ command'.calls # <<>>
    \/ command'.reply \in {"embed", "embeds"}

\* C20: whatever addrole and removerole commands came before, a step that
\* changes the registries or fetches and posts standings is a group,
\* sequence or registry command of an invoker who is an administrator or
\* holds a role that is in the permission list for that role's guild; a
\* step that changes the permission list is a role-management command of an
\* administrator, for a role of the invoking guild.
C20_OnlyPermittedTakeEffect ==
    [][/\ TookEffect =>
            /\ command'.name \in GatedCommands
            /\ Permitted(command'.ctx)
       /\ roles' # roles =>
            /\ command'.name \in RoleCommands
            /\ command'.ctx.administrator
            /\ GuildOf(command'.role) = command'.ctx.guild]_vars

\* A member who is no administrator, holding a listed role, had standings
\* posted.
C20_Witness ==
    /\ command.name = "group"
    /\ ~command.ctx.administrator
    /\ command.reply = "embed"
    /\ Permitted(command.ctx)

(***************************************************************************)
(* Termination of the paginated fetch.                                     *)
(***************************************************************************)
\* A pass of the loop that ends where it began: the answer leaves the start
\* of the next window and the total as they were, and the next request is
\* sent.  The same answer to that request keeps the fetch going for ever.
PassRepeats ==
    /\ IsPaged
    /\ pc = "data" /\ pc' = "data"
    /\ op_log' # op_log
    /\ page_start' = page_start
    /\ total_page_num' = total_page_num

\* C24: a paginated fetch that is answered every time with success and a
\* well-formed Content-Range of one fixed total ends after finitely many
\* requests, also when the server ignores the window asked for and reports
\* the same range again: no pass of the loop leaves the fetch where the pass
\* before left it.
C24_PagedFetchEnds == [][~PassRepeats]_vars

(***************************************************************************)
(* Failed lookups and the buffers.                                         *)
(***************************************************************************)
Lookups == {"get_tournament", "get_group_info"}

\* The buffer a lookup reads and fills.
BufferOf(lookup) ==
    IF lookup = "get_tournament" THEN tournament_buffer ELSE group_buffer

\* The last lookup has ended with its request answered by a failure status.
LookupFailed ==
    /\ pc = "idle"
    /\ call.name \in Lookups
    /\ arg.lookup = call.name
    /\ op_log # <<>>
    /\ LastStatus = "error"

\* This step starts a lookup (after a failed one, whose outcome it resets).
LookupStarts == pc = "idle" /\ outcome' # outcome

\* C25: the step in which the request of get_tournament or get_group_info
\* is answered with a failure leaves both buffers as they were, with nothing
\* kept for the tournament id asked for, and a lookup of the same kind and
\* id that follows sends its request again.
C25_FailedLookupKeepsNothing ==
    [][/\ (pc = "data" /\ LookupFailed') =>
            /\ tournament_buffer' = tournament_buffer
            /\ group_buffer' = group_buffer
            /\ ~Has(BufferOf(call.name)', arg.tournament_id)
       /\ (LookupFailed /\ LookupStarts /\ arg'.lookup = arg.lookup
               /\ arg'.tournament_id = arg.tournament_id) =>
            /\ pc' = "data"
            /\ op_log' = <<[purpose |-> "data", status |-> "pending"]>>]_vars

\* A lookup of groups has failed after a lookup of the other tournament
\* filled both buffers, which hold that tournament only.
C25_Witness ==
    /\ LookupFailed
    /\ call.name = "get_group_info"
    /\ DOMAIN group_buffer = TournamentIds \ {arg.tournament_id}
    /\ DOMAIN tournament_buffer = TournamentIds \ {arg.tournament_id}

(***************************************************************************)
(* Removal and lookup of stages.                                           *)
(***************************************************************************)
\* The command of this step was removegroup, let through.
GroupRemoved ==
    command'.name = "removegroup" /\ command'.reply = "Removed group"

\* The stage is nowhere in the registry after the step.
Gone(stage) == \A j \in 1..Len(stages') : stages'[j] # stage

\* After the step no stage has the name, lowered, as alias or group name.
NoStageLeft(stage_name) ==
    \A j \in 1..Len(stages') :
        /\ stages'[j].alias # lower(stage_name)
        /\ stages'[j].group.name # lower(stage_name)

\* C21: after a group was added under alias A, removegroup with the same
\* string A, or with the group's name, removes it, and a lookup of A that
\* follows finds no stage, upper-case letters in A or not.  A stage added
\* under alias A is held with the alias lower(A).
C21_RemovedByAliasOrName ==
    [][GroupRemoved =>
          \A k \in 1..Len(stages) :
              /\ stages[k].alias = lower(command'.target) =>
                    /\ Gone(stages[k])
                    /\ NoStageLeft(command'.target)
              /\ stages[k].group.name = command'.target =>
                    Gone(stages[k])]_vars

\* The stages that match the name by the claim's rule: the alias without
\* regard to case, or the group name as registered.
Matching(stage_name) ==
    {k \in 1..Len(stages) :
        \/ lower(stages[k].alias) = lower(stage_name)
        \/ stages[k].group.name = stage_name}

\* C22: get_stage finds a registered group by its alias, compared without
\* regard to case, and by its group name as registered, and of several
\* stages that match it returns the one added first; the group command then
\* does not end in the error of a stage not found.
C22_FoundByAliasOrName ==
    (command.name = "group" /\ command.reply # "Permission denied"
        /\ Matching(command.target) # {}) =>
        /\ command.raised # "TypeError"
        /\ get_registered_stage(stages, command.target) =
              <<stages[CHOOSE k \in Matching(command.target) :
                          \A j \in Matching(command.target) : k <= j]>>

(***************************************************************************)
(* Removal of a permitted role.                                            *)
(***************************************************************************)
\* The list without the entries equal to the entry, the others in order.
RECURSIVE Without(_, _)
Without(list, entry) ==
    IF list = <<>> THEN <<>>
    ELSE IF list[Len(list)] = entry
    THEN Without(SubSeq(list, 1, Len(list) - 1), entry)
    ELSE Append(Without(SubSeq(list, 1, Len(list) - 1), entry), list[Len(list)])

\* The entry of the role the last command named.
EntryNamed == [guild |-> GuildOf(command.role), role |-> command.role]

\* removerole ran to its end.
RoleRemoved == command.name = "removerole" /\ command.role # "none"

\* C26: after removerole for r the permission list holds no entry for r and
\* its guild, however often r was in it; a member without administrator
\* rights whose only role is r is denied by has_perms; the entries for other
\* roles and guilds are all there, in the order they were in.
C26_RoleRemovedWhole ==
    RoleRemoved =>
        /\ \A k \in 1..Len(roles) : roles[k] # EntryNamed
        /\ roles = Without(command.before, EntryNamed)
        /\ \A ctx \in Contexts :
              (~ctx.administrator /\ ctx.roles = {command.role}) =>
                  ~has_perms(ctx, roles)

\* r was removed from a list that held it twice, around another role.
C26_Witness ==
    /\ RoleRemoved
    /\ Len(command.before) = 3
    /\ command.before[1] = EntryNamed
    /\ command.before[3] = EntryNamed
    /\ roles = <<command.before[2]>>

(***************************************************************************)
(* Commands dispatched concurrently.                                       *)
(***************************************************************************)
\* The command has read the cooldown and not yet set it.
HasReadCooldown(i) == tasks[i].at = "paused"

\* The command has found the token stale and not yet stored a new one.
Refreshing(i) ==
    tasks[i].purpose = "refresh" /\ tasks[i].at \in {"paused", "waiting"}

\* C23: of the commands dispatched to the event loop, no two have both read
\* the same next-allowed-request time with neither having set it, so that
\* two requests that follow each other are at least 333 ms apart; and no
\* two have both found the same token stale and are both refreshing it.
C23_NeverInterleaved ==
    /\ \A i, j \in Commands :
          (i # j /\ HasReadCooldown(i) /\ HasReadCooldown(j)) =>
              tasks[i].wake # tasks[j].wake
    /\ gap = -1 \/ gap >= time_per_request
    /\ \A i, j \in Commands : i # j => ~(Refreshing(i) /\ Refreshing(j))

\* While the first command awaits its reply, the second, which had to pause
\* for the cooldown the first one left, is refreshing the token.
C23_Witness ==
    /\ tasks[1].at = "replying"
    /\ tasks[2].at = "waiting"
    /\ tasks[2].purpose = "refresh"
    /\ gap = time_per_request

====
